---- MODULE Spec2Model ----
(***************************************************************************)
(* Model of src/app.py: the Streamlit chat script that drives a two-pass   *)
(* tool-call loop against a language model and the tools of an MCP server. *)
(*                                                                         *)
(* The script is executed top to bottom once per "script run" of a browser *)
(* session.  st.session_state (history, tool_by_name) survives between the *)
(* runs of one session; the st.cache_resource cache survives between runs  *)
(* and is shared by all sessions.  An exception that escapes the script    *)
(* ends the run (Streamlit shows the traceback); whatever the run had      *)
(* already appended to st.session_state.history stays there.               *)
(***************************************************************************)
EXTENDS Naturals, Sequences, FiniteSets

(***************************************************************************)
(* Bounds of the model.                                                    *)
(***************************************************************************)
\* user messages submitted over all sessions together
MaxTurns == 2
\* tool-call requests carried by one model response
MaxCalls == 2

Sessions == {"s1", "s2"}

(***************************************************************************)
(* Values.                                                                 *)
(***************************************************************************)
None == <<>>
NoId == <<>>
\* the st.cache_resource cache holds no value for get_mcp_resources
Uncached == <<>>

SYSTEM_PROMPT == <<"You are a helpful assistant with tool access. Be concise.">>

\* what the user may type into st.chat_input
UserTexts == {<<"coffee?">>}
\* tool names the MCP server serves (client.get_tools())
ServedTools == {"list_expenses"}
\* tool names a model response may ask for; "get_weather" is not served
RequestNames == {"list_expenses", "get_weather"}
\* values a tool invocation may return
ToolValues == {[py |-> "float", v |-> "12.5"]}

\* json.dumps(result): a str is quoted, a number is printed as it is
json_dumps(x) == IF x.py = "str" THEN <<"\"" \o x.v \o "\"">> ELSE <<x.v>>

(***************************************************************************)
(* Messages (langchain_core.messages).                                     *)
(***************************************************************************)
SystemMessage(c) ==
    [type |-> "system", content |-> c, tool_calls |-> <<>>, tool_call_id |-> NoId]
HumanMessage(c) ==
    [type |-> "human", content |-> c, tool_calls |-> <<>>, tool_call_id |-> NoId]
AIMessage(c, tcs) ==
    [type |-> "ai", content |-> c, tool_calls |-> tcs, tool_call_id |-> NoId]
ToolMessage(id, c) ==
    [type |-> "tool", content |-> c, tool_calls |-> <<>>, tool_call_id |-> id]

VARIABLES
    cache,         \* st.cache_resource entry of get_mcp_resources: Uncached or the
                   \* value it returned, <<tools, number of the call that made it>>
    resources,     \* the script's variables client, tools, llm, llm_with_tools
    inited,        \* inited[s]: "history" in st.session_state
    history,       \* st.session_state.history
    tool_by_name,  \* keys of st.session_state.tool_by_name
    pc,            \* position of the session's script run
    user_text,     \* what st.chat_input returned in this run
    response,      \* the script's variable response
    tcIdx,         \* index of tc in response.tool_calls (the for loop)
    modelCalls,    \* calls made to the model during the current run
    invoked,       \* ids of the requests whose tool was invoked during the current run
    shown          \* what the run has put on the page after the chat input

vars == <<cache, resources, inited, history, tool_by_name, pc, user_text, response, tcIdx,
          modelCalls, invoked, shown>>

Nothing == [kind |-> "nothing", text |-> <<>>]
Answer(t) == [kind |-> "answer", text |-> t]
Exception(where) == [kind |-> "exception", text |-> <<where>>]

NoResponse == AIMessage(<<>>, <<>>)

\* number of messages of type ty in a history
CountType(h, ty) == Cardinality({i \in DOMAIN h : h[i].type = ty})

\* user messages submitted so far in the sessions S: those appended to a history
\* and those of a run that has not reached line 106 yet
RECURSIVE SumTurns(_)
SumTurns(S) ==
    IF S = {} THEN 0
    ELSE LET s == CHOOSE x \in S : TRUE
         IN  CountType(history[s], "human")
               + (IF pc[s] = "load" /\ user_text[s] # None THEN 1 ELSE 0)
               + SumTurns(S \ {s})

\* sequences over S of length lo..hi
SeqsOf(S, lo, hi) == UNION {[1..n -> S] : n \in lo..hi}

\* The tool-call requests of a response that becomes element number pos of a
\* history.  The ids are fresh (the model layer draws a uuid per request): the
\* position of the message and of the request in it stand for the uuid.
ToolCalls(names, pos) ==
    [i \in 1..Len(names) |-> [id |-> <<pos, i>>, name |-> names[i]]]

\* The text of the response that becomes element number pos of a history: the
\* model is free in what it writes, and nothing in the script reads the text, so
\* one text per response stands for it, different from every other response's.
Text(pos) == <<"text", pos>>

\* what llm_with_tools (the tools bound) may return on history h
ModelResponses(h) ==
    {AIMessage(Text(Len(h) + 1), ToolCalls(names, Len(h) + 1)) :
        names \in SeqsOf(RequestNames, 0, MaxCalls)}

\* what llm (no tools bound) may return on history h: text, or, against its
\* instructions, text with a tool-call request
PlainResponses(h) ==
    {AIMessage(Text(Len(h) + 1), ToolCalls(names, Len(h) + 1)) :
        names \in {<<>>, <<"list_expenses">>}}

Init ==
    /\ cache = Uncached
    /\ resources = [s \in Sessions |-> Uncached]
    /\ inited = [s \in Sessions |-> FALSE]
    /\ history = [s \in Sessions |-> <<>>]
    /\ tool_by_name = [s \in Sessions |-> {}]
    /\ pc = [s \in Sessions |-> "idle"]
    /\ user_text = [s \in Sessions |-> None]
    /\ response = [s \in Sessions |-> NoResponse]
    /\ tcIdx = [s \in Sessions |-> 0]
    /\ modelCalls = [s \in Sessions |-> <<>>]
    /\ invoked = [s \in Sessions |-> <<>>]
    /\ shown = [s \in Sessions |-> Nothing]

\* The run is over: the script returned, called st.stop() or raised.
EndRun(s, out) ==
    /\ pc' = [pc EXCEPT ![s] = "idle"]
    /\ shown' = [shown EXCEPT ![s] = out]

\* StartRun that does not wait for the session's earlier run to be over
StartRunAnytime(s, text) ==
    /\ IF text = None THEN ~inited[s] ELSE inited[s] /\ SumTurns(Sessions) < MaxTurns
    /\ pc' = [pc EXCEPT ![s] = "load"]
    /\ user_text' = [user_text EXCEPT ![s] = text]
    /\ response' = [response EXCEPT ![s] = NoResponse]
    /\ tcIdx' = [tcIdx EXCEPT ![s] = 0]
    /\ modelCalls' = [modelCalls EXCEPT ![s] = <<>>]
    /\ invoked' = [invoked EXCEPT ![s] = <<>>]
    /\ shown' = [shown EXCEPT ![s] = Nothing]
    /\ resources' = [resources EXCEPT ![s] = Uncached]
    /\ UNCHANGED <<cache, inited, history, tool_by_name>>

(***************************************************************************)
(* A script run starts: the page is loaded (text = None), which is how a   *)
(* session comes to be, or the user submitted text in the chat input, the  *)
(* page's only widget, which exists once a run has reached st.chat_input.  *)
(***************************************************************************)
StartRun(s, text) ==
    /\ pc[s] = "idle"
    /\ IF text = None THEN ~inited[s] ELSE inited[s] /\ SumTurns(Sessions) < MaxTurns
    /\ pc' = [pc EXCEPT ![s] = "load"]
    /\ user_text' = [user_text EXCEPT ![s] = text]
    /\ response' = [response EXCEPT ![s] = NoResponse]
    /\ tcIdx' = [tcIdx EXCEPT ![s] = 0]
    /\ modelCalls' = [modelCalls EXCEPT ![s] = <<>>]
    /\ invoked' = [invoked EXCEPT ![s] = <<>>]
    /\ shown' = [shown EXCEPT ![s] = Nothing]
    /\ resources' = [resources EXCEPT ![s] = Uncached]
    /\ UNCHANGED <<cache, inited, history, tool_by_name>>

\* Prologue without the guard of line 88: every run seeds the history again
PrologueReseed(s, tools) ==
    LET seeded == <<SystemMessage(SYSTEM_PROMPT)>>
    IN  /\ inited' = [inited EXCEPT ![s] = TRUE]
        /\ tool_by_name' = [tool_by_name EXCEPT ![s] = tools]
        /\ IF user_text[s] = None
           THEN /\ history' = [history EXCEPT ![s] = seeded]
                /\ EndRun(s, Nothing)
           ELSE /\ history' = [history EXCEPT ![s] =
                                  Append(seeded, HumanMessage(user_text[s]))]
                /\ pc' = [pc EXCEPT ![s] = "first_pass"]
                /\ UNCHANGED shown

\* Prologue with the system prompt appended by every run
PrologueAppendSystem(s, tools) ==
    LET seeded == Append(history[s], SystemMessage(SYSTEM_PROMPT))
    IN  /\ inited' = [inited EXCEPT ![s] = TRUE]
        /\ tool_by_name' = [tool_by_name EXCEPT ![s] = IF inited[s] THEN @ ELSE tools]
        /\ IF user_text[s] = None
           THEN /\ history' = [history EXCEPT ![s] = seeded]
                /\ EndRun(s, Nothing)
           ELSE /\ history' = [history EXCEPT ![s] =
                                  Append(seeded, HumanMessage(user_text[s]))]
                /\ pc' = [pc EXCEPT ![s] = "first_pass"]
                /\ UNCHANGED shown

\* Lines 88-106, which follow get_mcp_resources() without waiting for anything:
\* seed the session state if "history" is not in it, render, read the chat input
\* and, if there is text, append the user's message.  tools is what
\* get_mcp_resources() returned.
Prologue(s, tools) ==
    LET seeded == IF inited[s] THEN history[s] ELSE <<SystemMessage(SYSTEM_PROMPT)>>
    IN  /\ inited' = [inited EXCEPT ![s] = TRUE]
        /\ tool_by_name' = [tool_by_name EXCEPT ![s] = IF inited[s] THEN @ ELSE tools]
        /\ IF user_text[s] = None
           THEN /\ history' = [history EXCEPT ![s] = seeded]
                /\ EndRun(s, Nothing)
           ELSE /\ history' = [history EXCEPT ![s] =
                                  Append(seeded, HumanMessage(user_text[s]))]
                /\ pc' = [pc EXCEPT ![s] = "first_pass"]
                /\ UNCHANGED shown

\* What a run of get_mcp_resources() returns: the client, the tools and the two
\* model objects it creates.  The objects of one run are not those of another:
\* the number of the run that made them stands for their identity.
Created(tools) == <<tools, IF cache = Uncached THEN 1 ELSE cache[2] + 1>>

\* LoadCached without the cache (no @st.cache_resource): the run discovers again
LoadCachedRediscover(s) ==
    /\ pc[s] = "load"
    /\ cache # Uncached
    /\ cache' = Created(ServedTools)
    /\ resources' = [resources EXCEPT ![s] = cache']
    /\ Prologue(s, ServedTools)
    /\ UNCHANGED <<user_text, response, tcIdx, modelCalls, invoked>>

\* get_mcp_resources() answered from the cache
LoadCached(s) ==
    /\ pc[s] = "load"
    /\ cache # Uncached
    /\ resources' = [resources EXCEPT ![s] = cache]
    /\ Prologue(s, cache[1])
    /\ UNCHANGED <<cache, user_text, response, tcIdx, modelCalls, invoked>>

\* get_mcp_resources() runs and client.get_tools() succeeds: the result is cached
DiscoverOk(s) ==
    /\ pc[s] = "load"
    /\ cache = Uncached
    /\ cache' = Created(ServedTools)
    /\ resources' = [resources EXCEPT ![s] = cache']
    /\ Prologue(s, ServedTools)
    /\ UNCHANGED <<user_text, response, tcIdx, modelCalls, invoked>>

\* DiscoverFail that goes on with no tools instead of stopping the script
DiscoverFailDegraded(s) ==
    /\ pc[s] = "load"
    /\ cache = Uncached
    /\ resources' = [resources EXCEPT ![s] = <<{}, 0>>]
    /\ Prologue(s, {})
    /\ UNCHANGED <<cache, user_text, response, tcIdx, modelCalls, invoked>>

\* get_mcp_resources() runs and fails: st.error, st.stop(); nothing is cached
DiscoverFail(s) ==
    /\ pc[s] = "load"
    /\ cache = Uncached
    /\ EndRun(s, [kind |-> "connection_error", text |-> <<>>])
    /\ UNCHANGED <<cache, resources, inited, history, tool_by_name, user_text, response, tcIdx,
                   modelCalls, invoked>>

ModelCall(s, bound) == [tools |-> bound, history |-> history[s]]

\* FirstPass without the test of line 114: the second pass follows in any case
FirstPassAlwaysSecond(s, r) ==
    /\ pc[s] = "first_pass"
    /\ modelCalls' = [modelCalls EXCEPT ![s] = Append(@, ModelCall(s, TRUE))]
    /\ response' = [response EXCEPT ![s] = r]
    /\ history' = [history EXCEPT ![s] = Append(@, r)]
    /\ IF r.tool_calls # <<>>
       THEN /\ pc' = [pc EXCEPT ![s] = "tool_loop"]
            /\ tcIdx' = [tcIdx EXCEPT ![s] = 1]
       ELSE /\ pc' = [pc EXCEPT ![s] = "second_pass"]
            /\ UNCHANGED tcIdx
    /\ UNCHANGED <<cache, resources, inited, tool_by_name, user_text, invoked, shown>>

\* llm_with_tools.ainvoke(history) returns; the response is appended
FirstPass(s, r) ==
    /\ pc[s] = "first_pass"
    /\ modelCalls' = [modelCalls EXCEPT ![s] = Append(@, ModelCall(s, TRUE))]
    /\ response' = [response EXCEPT ![s] = r]
    /\ history' = [history EXCEPT ![s] = Append(@, r)]
    /\ IF r.tool_calls # <<>>
       THEN /\ pc' = [pc EXCEPT ![s] = "tool_loop"]
            /\ tcIdx' = [tcIdx EXCEPT ![s] = 1]
            /\ UNCHANGED shown
       ELSE /\ EndRun(s, Answer(r.content))
            /\ UNCHANGED tcIdx
    /\ UNCHANGED <<cache, resources, inited, tool_by_name, user_text, invoked>>

\* FirstPassFail that records the failure in the history as an assistant message
FirstPassFailRecorded(s) ==
    /\ pc[s] = "first_pass"
    /\ modelCalls' = [modelCalls EXCEPT ![s] = Append(@, ModelCall(s, TRUE))]
    /\ history' = [history EXCEPT ![s] = Append(@, AIMessage(<<"error">>, <<>>))]
    /\ EndRun(s, Exception("first_pass"))
    /\ UNCHANGED <<cache, resources, inited, tool_by_name, user_text, response, tcIdx, invoked>>

\* llm_with_tools.ainvoke(history) raises
FirstPassFail(s) ==
    /\ pc[s] = "first_pass"
    /\ modelCalls' = [modelCalls EXCEPT ![s] = Append(@, ModelCall(s, TRUE))]
    /\ EndRun(s, Exception("first_pass"))
    /\ UNCHANGED <<cache, resources, inited, history, tool_by_name, user_text, response, tcIdx,
                   invoked>>

tc(s) == response[s].tool_calls[tcIdx[s]]

\* st.session_state.tool_by_name[tc["name"]] raises KeyError
ToolLookupFail(s) ==
    /\ pc[s] = "tool_loop"
    /\ tc(s).name \notin tool_by_name[s]
    /\ EndRun(s, Exception("tool_lookup"))
    /\ UNCHANGED <<cache, resources, inited, history, tool_by_name, user_text, response, tcIdx,
                   modelCalls, invoked>>

\* ToolInvokeFail that catches the exception and goes on with the next request
ToolInvokeFailSkipped(s) ==
    /\ pc[s] = "tool_loop"
    /\ tc(s).name \in tool_by_name[s]
    /\ invoked' = [invoked EXCEPT ![s] = Append(@, tc(s).id)]
    /\ IF tcIdx[s] < Len(response[s].tool_calls)
       THEN /\ tcIdx' = [tcIdx EXCEPT ![s] = tcIdx[s] + 1]
            /\ UNCHANGED pc
       ELSE /\ pc' = [pc EXCEPT ![s] = "second_pass"]
            /\ UNCHANGED tcIdx
    /\ UNCHANGED <<cache, resources, inited, history, tool_by_name, user_text, response,
                   modelCalls, shown>>

\* tool.ainvoke(tc["args"]) raises
ToolInvokeFail(s) ==
    /\ pc[s] = "tool_loop"
    /\ tc(s).name \in tool_by_name[s]
    /\ invoked' = [invoked EXCEPT ![s] = Append(@, tc(s).id)]
    /\ EndRun(s, Exception("tool_invoke"))
    /\ UNCHANGED <<cache, resources, inited, history, tool_by_name, user_text, response, tcIdx,
                   modelCalls>>

\* ResultId that pairs every result with the last request of the batch
ResultIdLast(s) == response[s].tool_calls[Len(response[s].tool_calls)].id

\* the request whose result is appended by this pass of the loop
ResultId(s) == tc(s).id

\* after the pass for request number i of r
NextInLoop(s, i, r) ==
    IF i < Len(r.tool_calls)
    THEN /\ tcIdx' = [tcIdx EXCEPT ![s] = i + 1]
         /\ UNCHANGED pc
    ELSE /\ pc' = [pc EXCEPT ![s] = "second_pass"]
         /\ UNCHANGED tcIdx

\* tool.ainvoke(tc["args"]) returns; its result is appended
ToolInvoke(s, result) ==
    /\ pc[s] = "tool_loop"
    /\ tc(s).name \in tool_by_name[s]
    /\ invoked' = [invoked EXCEPT ![s] = Append(@, tc(s).id)]
    /\ history' = [history EXCEPT ![s] =
                      Append(@, ToolMessage(ResultId(s), json_dumps(result)))]
    /\ NextInLoop(s, tcIdx[s], response[s])
    /\ UNCHANGED <<cache, resources, inited, tool_by_name, user_text, response, modelCalls, shown>>

\* SecondPass that runs the tool loop again when the response asks for tools
SecondPassLoops(s, r) ==
    /\ pc[s] = "second_pass"
    /\ modelCalls' = [modelCalls EXCEPT ![s] = Append(@, ModelCall(s, FALSE))]
    /\ response' = [response EXCEPT ![s] = r]
    /\ history' = [history EXCEPT ![s] = Append(@, r)]
    /\ IF r.tool_calls # <<>>
       THEN /\ pc' = [pc EXCEPT ![s] = "tool_loop"]
            /\ tcIdx' = [tcIdx EXCEPT ![s] = 1]
            /\ UNCHANGED shown
       ELSE /\ EndRun(s, Answer(r.content))
            /\ UNCHANGED tcIdx
    /\ UNCHANGED <<cache, resources, inited, tool_by_name, user_text, invoked>>

\* SecondPass without line 126: the response is shown and not appended
SecondPassNotAppended(s, r) ==
    /\ pc[s] = "second_pass"
    /\ modelCalls' = [modelCalls EXCEPT ![s] = Append(@, ModelCall(s, FALSE))]
    /\ response' = [response EXCEPT ![s] = r]
    /\ EndRun(s, Answer(r.content))
    /\ UNCHANGED <<cache, resources, inited, history, tool_by_name, user_text, tcIdx,
                   invoked>>

\* SecondPass that calls llm_with_tools, the model with the tools bound
SecondPassWithTools(s, r) ==
    /\ pc[s] = "second_pass"
    /\ modelCalls' = [modelCalls EXCEPT ![s] = Append(@, ModelCall(s, TRUE))]
    /\ response' = [response EXCEPT ![s] = r]
    /\ history' = [history EXCEPT ![s] = Append(@, r)]
    /\ EndRun(s, Answer(r.content))
    /\ UNCHANGED <<cache, resources, inited, tool_by_name, user_text, tcIdx, invoked>>

\* llm.ainvoke(history) returns; the response is appended and shown
SecondPass(s, r) ==
    /\ pc[s] = "second_pass"
    /\ modelCalls' = [modelCalls EXCEPT ![s] = Append(@, ModelCall(s, FALSE))]
    /\ response' = [response EXCEPT ![s] = r]
    /\ history' = [history EXCEPT ![s] = Append(@, r)]
    /\ EndRun(s, Answer(r.content))
    /\ UNCHANGED <<cache, resources, inited, tool_by_name, user_text, tcIdx, invoked>>

\* SecondPassFail that records the failure in the history as an assistant message
SecondPassFailRecorded(s) ==
    /\ pc[s] = "second_pass"
    /\ modelCalls' = [modelCalls EXCEPT ![s] = Append(@, ModelCall(s, FALSE))]
    /\ history' = [history EXCEPT ![s] = Append(@, AIMessage(<<"error">>, <<>>))]
    /\ EndRun(s, Exception("second_pass"))
    /\ UNCHANGED <<cache, resources, inited, tool_by_name, user_text, response, tcIdx,
                   invoked>>

\* llm.ainvoke(history) raises
SecondPassFail(s) ==
    /\ pc[s] = "second_pass"
    /\ modelCalls' = [modelCalls EXCEPT ![s] = Append(@, ModelCall(s, FALSE))]
    /\ EndRun(s, Exception("second_pass"))
    /\ UNCHANGED <<cache, resources, inited, history, tool_by_name, user_text, response, tcIdx,
                   invoked>>

\* (the position is tested before the model's possible responses are built)
Next ==
    \E s \in Sessions :
        \/ \E text \in UserTexts \cup {None} : StartRun(s, text)
        \/ LoadCached(s)
        \/ DiscoverOk(s)
        \/ DiscoverFail(s)
        \/ pc[s] = "first_pass" /\ \E r \in ModelResponses(history[s]) : FirstPass(s, r)
        \/ FirstPassFail(s)
        \/ ToolLookupFail(s)
        \/ ToolInvokeFail(s)
        \/ \E result \in ToolValues : ToolInvoke(s, result)
        \/ pc[s] = "second_pass" /\ \E r \in PlainResponses(history[s]) : SecondPass(s, r)
        \/ SecondPassFail(s)

Spec == Init /\ [][Next]_vars

\* What the scheduling guarantees: a step the script takes on its own (the cache
\* answers, the lookup in the tool table raises) is taken.  That the tool server
\* or the model answers, or that the user writes again, is guaranteed by
\* nothing: run_sync waits in loop.run_until_complete(coro) for as long as the
\* call takes.
FairSpec ==
    Spec /\ \A s \in Sessions : WF_vars(LoadCached(s)) /\ WF_vars(ToolLookupFail(s))

(***************************************************************************)
(* Reading a history.                                                      *)
(***************************************************************************)
Last(h) == h[Len(h)]

IsPrefix(a, b) == Len(a) <= Len(b) /\ SubSeq(b, 1, Len(a)) = a

\* index of the last user message of h (0 if there is none): where the
\* current turn starts
LastHuman(h) ==
    LET at == {i \in DOMAIN h : h[i].type = "human"}
    IN  IF at = {} THEN 0 ELSE CHOOSE i \in at : \A j \in at : j <= i

\* the session's current turn has a first-pass response in the history
HasPlan(s) ==
    /\ LastHuman(history[s]) > 0
    /\ Len(history[s]) > LastHuman(history[s])

\* the first-pass response of the session's current turn
Plan(s) == history[s][LastHuman(history[s]) + 1]

\* the first-pass response of the current turn asks for tools
HasBatch(s) == HasPlan(s) /\ Plan(s).tool_calls # <<>>

\* the tool results appended in the current turn, in the order of appending
TurnResults(s) ==
    SelectSeq(SubSeq(history[s], LastHuman(history[s]) + 2, Len(history[s])),
              LAMBDA m : m.type = "tool")

\* indices of the tool results in h that answer the request id
ResultsFor(h, id) == {j \in DOMAIN h : h[j].type = "tool" /\ h[j].tool_call_id = id}

\* every tool-call request in h has exactly one tool result in h
NoOrphans(h) ==
    \A j \in DOMAIN h : \A i \in DOMAIN h[j].tool_calls :
        Cardinality(ResultsFor(h, h[j].tool_calls[i].id)) = 1

\* the run of the session is over
RunOver(s) == pc[s] = "idle"

(***************************************************************************)
(* C1: when a run is over whose first-pass response carried N >= 1 tool-   *)
(* call requests, the turn has appended exactly N tool results, one per    *)
(* request id, however many of the requests failed.                        *)
(* Violated by the code: a failing lookup or invocation ends the loop.     *)
(***************************************************************************)
C1_OneResultPerRequest ==
    \A s \in Sessions :
        (RunOver(s) /\ HasBatch(s)) =>
            /\ Len(TurnResults(s)) = Len(Plan(s).tool_calls)
            /\ \A i \in DOMAIN Plan(s).tool_calls :
                 Cardinality(ResultsFor(history[s], Plan(s).tool_calls[i].id)) = 1

(***************************************************************************)
(* C2: every history passed to the model has, for each tool-call request   *)
(* in it, exactly one tool result with the same id.                        *)
(* Violated by the code: a turn aborted in the tool loop, or a second-pass *)
(* response that carries requests, leaves requests unanswered, and the     *)
(* next turn passes them to the model.                                      *)
(***************************************************************************)
C2_NoOrphanReachesModel ==
    \A s \in Sessions : \A i \in DOMAIN modelCalls[s] :
        NoOrphans(modelCalls[s][i].history)

(***************************************************************************)
(* C3: when the first-pass response asks for a tool name that is not in    *)
(* the session's tool table, the finished run has appended a tool result   *)
(* with that request's id, has made the second model call with that result *)
(* in the history, and shows the second pass's text.                       *)
(* Violated by the code: the lookup raises KeyError and the run ends.      *)
(***************************************************************************)
C3_UnknownToolIsAnswered ==
    \A s \in Sessions :
        (RunOver(s) /\ HasBatch(s)) =>
            \A i \in DOMAIN Plan(s).tool_calls :
                Plan(s).tool_calls[i].name \notin tool_by_name[s] =>
                    /\ ResultsFor(history[s], Plan(s).tool_calls[i].id) # {}
                    /\ Len(modelCalls[s]) = 2
                    /\ ResultsFor(modelCalls[s][2].history, Plan(s).tool_calls[i].id) # {}
                    /\ shown[s].kind = "answer"

\* the tool of request id was invoked in this run and no result was appended
InvocationFailed(s, id) ==
    /\ \E k \in DOMAIN invoked[s] : invoked[s][k] = id
    /\ ResultsFor(history[s], id) = {}

(***************************************************************************)
(* C4: when the invocation of one tool of a batch has failed, the finished *)
(* run has still invoked every other request of the batch whose tool is in *)
(* the table, and has made the second model call.                          *)
(* Violated by the code: the exception leaves the loop and ends the run.   *)
(***************************************************************************)
C4_InvocationFailureIsLocal ==
    \A s \in Sessions :
        (RunOver(s) /\ HasBatch(s)
           /\ \E i \in DOMAIN Plan(s).tool_calls :
                 InvocationFailed(s, Plan(s).tool_calls[i].id)) =>
            /\ \A i \in DOMAIN Plan(s).tool_calls :
                 Plan(s).tool_calls[i].name \in tool_by_name[s] =>
                     \E k \in DOMAIN invoked[s] : invoked[s][k] = Plan(s).tool_calls[i].id
            /\ Len(modelCalls[s]) = 2

(***************************************************************************)
(* C5: a run makes at most two model calls, and once it has made the       *)
(* second one it invokes no tool any more (the next thing to happen to the *)
(* session is a new run), also when the second-pass response carries tool- *)
(* call requests.                                                          *)
(***************************************************************************)
C5_SecondPassEndsTurn ==
    [][\A s \in Sessions :
          /\ Len(modelCalls'[s]) <= 2
          /\ Len(modelCalls[s]) = 2 =>
                /\ pc[s] = "idle"
                /\ invoked'[s] = invoked[s] \/ (modelCalls'[s] = <<>> /\ invoked'[s] = <<>>)]_vars

C5_Witness ==
    \E s \in Sessions :
        /\ RunOver(s)
        /\ Len(modelCalls[s]) = 2
        /\ Last(history[s]).type = "ai"
        /\ Last(history[s]).tool_calls # <<>>
        /\ shown[s] = Answer(Last(history[s]).content)

(***************************************************************************)
(* C6: when the first model call of a turn fails, the run ends with the    *)
(* history as it was passed to that call, the history before the turn plus *)
(* the user's message; no tool was invoked; and the next message of the    *)
(* user is appended to that history and goes to a first pass.              *)
(***************************************************************************)
C6_FirstPassFailureKeepsUserTurn ==
    [][\A s \in Sessions :
          /\ (pc[s] = "load" /\ pc'[s] = "first_pass" /\ inited[s]) =>
                history'[s] = Append(history[s], HumanMessage(user_text[s]))
          /\ (pc[s] = "first_pass" /\ shown'[s] = Exception("first_pass")) =>
                /\ history'[s] = history[s]
                /\ Last(history'[s]).type = "human"
                /\ modelCalls'[s] = <<[tools |-> TRUE, history |-> history[s]]>>
                /\ invoked'[s] = <<>>
                /\ pc'[s] = "idle"
          /\ (shown[s] = Exception("first_pass") /\ inited[s]) =>
                /\ history'[s] = history[s]
                /\ pc'[s] = "load" => user_text'[s] \in UserTexts]_vars

\* a turn that follows a turn whose first pass failed has been answered
C6_Witness ==
    \E s \in Sessions :
        /\ RunOver(s)
        /\ shown[s].kind = "answer"
        /\ LastHuman(history[s]) > 2
        /\ history[s][LastHuman(history[s]) - 1].type = "human"

(***************************************************************************)
(* C7: the history of a session only grows at its end: in every step the   *)
(* old history is a prefix of the new one.                                 *)
(***************************************************************************)
C7_HistoryAppendOnly ==
    [][\A s \in Sessions : IsPrefix(history[s], history'[s])]_vars

\* a second turn, after a first one that ran tools, has been answered
C7_Witness ==
    \E s \in Sessions :
        /\ RunOver(s)
        /\ CountType(history[s], "human") = 2
        /\ CountType(history[s], "tool") >= 1
        /\ Last(history[s]).type = "ai"

(***************************************************************************)
(* C8: once a session has a history, the history has exactly one system    *)
(* message, and it is its first element.                                   *)
(***************************************************************************)
C8_OneSystemTurnFirst ==
    \A s \in Sessions :
        IF inited[s]
        THEN /\ history[s] # <<>>
             /\ history[s][1] = SystemMessage(SYSTEM_PROMPT)
             /\ CountType(history[s], "system") = 1
        ELSE history[s] = <<>>

\* a session whose script ran three times: page load and two user turns
C8_Witness ==
    \E s \in Sessions :
        /\ inited[s]
        /\ CountType(history[s], "human") = 2
        /\ pc[s] = "first_pass"

(***************************************************************************)
(* C9: the tool results of a batch are appended in the order of the        *)
(* requests: the i-th tool result after a response carries the id of the   *)
(* response's i-th request, and a tool result only ever stands there.      *)
(***************************************************************************)
C9_ResultsInRequestOrder ==
    \A s \in Sessions :
        /\ HasPlan(s) =>
              /\ Len(TurnResults(s)) <= Len(Plan(s).tool_calls)
              /\ \A i \in DOMAIN TurnResults(s) :
                    /\ history[s][LastHuman(history[s]) + 1 + i] = TurnResults(s)[i]
                    /\ TurnResults(s)[i].tool_call_id = Plan(s).tool_calls[i].id
        /\ ~HasPlan(s) => TurnResults(s) = <<>>

C9_Witness ==
    \E s \in Sessions :
        /\ HasBatch(s)
        /\ Len(Plan(s).tool_calls) >= 2
        /\ Len(TurnResults(s)) = Len(Plan(s).tool_calls)

\* the first pass of the run has returned a response without tool-call requests
PlainFirstPass(s) ==
    /\ modelCalls[s] # <<>>
    /\ Len(history[s]) > Len(modelCalls[s][1].history)
    /\ history[s][Len(modelCalls[s][1].history) + 1].tool_calls = <<>>

(***************************************************************************)
(* C10: when the first-pass response has no tool-call requests the run is  *)
(* over at once: no tool was invoked, the first model call is the only     *)
(* one, the history is the history before the turn plus the user's message *)
(* and the response, and what is shown is the response's text.             *)
(***************************************************************************)
C10_PlainAnswerEndsTurn ==
    \A s \in Sessions :
        PlainFirstPass(s) =>
            LET given == modelCalls[s][1].history
            IN  /\ RunOver(s)
                /\ invoked[s] = <<>>
                /\ Len(modelCalls[s]) = 1
                /\ modelCalls[s][1].tools
                /\ Last(given) = HumanMessage(user_text[s])
                /\ LastHuman(history[s]) = Len(given)
                /\ history[s] = Append(given, response[s])
                /\ response[s].type = "ai"
                /\ shown[s] = Answer(response[s].content)

C10_Witness ==
    \E s \in Sessions :
        /\ PlainFirstPass(s)
        /\ Len(history[s]) = 3
        /\ shown[s] = Answer(Text(3))

(***************************************************************************)
(* C11: when the first-pass response carries N >= 1 tool-call requests,    *)
(* all N tools return and the second pass returns, the finished turn has   *)
(* appended N+3 messages to the history it found: the user's message, the  *)
(* first-pass response, the N tool results in request order and the        *)
(* second-pass response, whose text is what is shown (N = 1 on a history   *)
(* of the system message alone: length 5).                                 *)
(***************************************************************************)
C11_ToolTurnAppendsNPlus3 ==
    \A s \in Sessions :
        (RunOver(s) /\ HasBatch(s) /\ shown[s].kind = "answer"
           /\ Len(TurnResults(s)) = Len(Plan(s).tool_calls)) =>
            \A k \in {LastHuman(history[s])} :
            LET h == history[s]
                N == Len(h[k + 1].tool_calls)
            IN  /\ modelCalls[s][1].history = SubSeq(h, 1, k)
                /\ h[k] = HumanMessage(user_text[s])
                /\ Len(h) = (k - 1) + N + 3
                /\ h[k + 1].type = "ai"
                /\ \A i \in 1..N :
                      /\ h[k + 1 + i].type = "tool"
                      /\ h[k + 1 + i].tool_call_id = h[k + 1].tool_calls[i].id
                /\ h[Len(h)] = response[s]
                /\ response[s].type = "ai"
                /\ modelCalls[s][2].history = SubSeq(h, 1, Len(h) - 1)
                /\ shown[s] = Answer(response[s].content)
                /\ shown[s].text # h[k + 1].content
                /\ (k = 2 /\ N = 1) => Len(h) = 5

C11_Witness ==
    \E s \in Sessions :
        /\ RunOver(s)
        /\ Len(history[s]) = 5
        /\ history[s][4].type = "tool"
        /\ shown[s] = Answer(Text(5))

\* the run of the session is inside a user turn: between line 106 and its end
InTurn(s) == pc[s] \in {"first_pass", "tool_loop", "second_pass"}

C13_EveryTurnEnds ==
    \A s \in Sessions : InTurn(s) ~> RunOver(s)

(***************************************************************************)
(* C14: once get_mcp_resources() has returned a value, the cache keeps     *)
(* that value: no later run makes another one, in any session, and what a  *)
(* run's client, tools and model variables hold, and what a session's tool *)
(* table was made from, is that one value.                                  *)
(***************************************************************************)
C14_DiscoveryMemoized ==
    [][/\ cache # Uncached => cache' = cache
       /\ cache' # Uncached => cache'[2] = 1
       /\ \A s \in Sessions :
             /\ resources'[s] # Uncached => resources'[s] = cache'
             /\ inited'[s] => (cache' # Uncached /\ tool_by_name'[s] = cache'[1])]_vars

\* both sessions have run on the cached value, one of them through a model call
C14_Witness ==
    \E s \in Sessions : \E t \in Sessions \ {s} :
        /\ inited[s] /\ inited[t]
        /\ resources[s] # Uncached
        /\ resources[s] = resources[t]
        /\ modelCalls[t] # <<>>

(***************************************************************************)
(* C15: a run in which discovery fails ends there: the session gets no     *)
(* history and no tool table, the run holds no resources, has read no user *)
(* input and made no model call, and until a later run has loaded the      *)
(* resources the session accepts no user message; a session's tool table   *)
(* is never anything but the served tools.                                 *)
(***************************************************************************)
C15_DiscoveryFailureAborts ==
    [][\A s \in Sessions :
          /\ (pc[s] = "load" /\ pc'[s] # "load" /\ cache' = Uncached) =>
                /\ pc'[s] = "idle"
                /\ shown'[s].kind = "connection_error"
                /\ ~inited'[s]
                /\ history'[s] = <<>>
                /\ tool_by_name'[s] = {}
                /\ resources'[s] = Uncached
                /\ user_text'[s] = None
                /\ modelCalls'[s] = <<>>
          /\ shown[s].kind = "connection_error" =>
                /\ history'[s] = <<>>
                /\ pc'[s] = "load" => user_text'[s] = None
          /\ inited'[s] => tool_by_name'[s] = ServedTools]_vars

\* discovery has failed for one session while no session has the resources
C15_Witness ==
    \E s \in Sessions :
        /\ shown[s].kind = "connection_error"
        /\ RunOver(s)
        /\ cache = Uncached

(***************************************************************************)
(* C16: the first model call of a run has the tools bound and gets the     *)
(* history up to the user's message.  A second call is made, or under way, *)
(* exactly when the first-pass response carried requests and a result has  *)
(* been appended for each; it has no tools bound and gets the history up   *)
(* to the last of these results, the first-pass response included.         *)
(***************************************************************************)
C16_TwoPassProtocol ==
    \A s \in Sessions :
        modelCalls[s] # <<>> =>
            \A k \in {LastHuman(history[s])} :
            LET mc == modelCalls[s]
                h == history[s]
            IN  /\ mc[1].tools
                /\ mc[1].history = SubSeq(h, 1, k)
                /\ Last(mc[1].history).type = "human"
                /\ (Len(mc) = 2 \/ pc[s] = "second_pass")
                      <=> (HasBatch(s) /\ Len(TurnResults(s)) = Len(Plan(s).tool_calls))
                /\ Len(mc) = 2 =>
                      LET N == Len(h[k + 1].tool_calls)
                      IN  /\ ~mc[2].tools
                          /\ mc[2].history = SubSeq(h, 1, k + 1 + N)
                          /\ mc[2].history[k + 1] = Plan(s)
                          /\ \A i \in 1..N :
                                /\ mc[2].history[k + 1 + i].type = "tool"
                                /\ mc[2].history[k + 1 + i].tool_call_id
                                      = Plan(s).tool_calls[i].id

C16_Witness ==
    \E s \in Sessions :
        /\ Len(modelCalls[s]) = 2
        /\ Len(Plan(s).tool_calls) = 2
        /\ Len(modelCalls[s][2].history) = Len(modelCalls[s][1].history) + 3

(***************************************************************************)
(* C17: when the second model call of a turn fails, the run ends with the  *)
(* history as it was passed to that call: the user's message, the first-   *)
(* pass response and its N tool results, and no further assistant message; *)
(* the next message of the user is appended to that history and goes to a  *)
(* first pass.                                                             *)
(***************************************************************************)
C17_SecondPassFailureKeepsTurn ==
    [][\A s \in Sessions :
          /\ (pc[s] = "second_pass" /\ shown'[s] = Exception("second_pass")) =>
                LET h == history'[s]
                    k == LastHuman(h)
                    N == Len(h[k + 1].tool_calls)
                IN  /\ h = history[s]
                    /\ pc'[s] = "idle"
                    /\ h[k] = HumanMessage(user_text[s])
                    /\ h[k + 1].type = "ai"
                    /\ N >= 1
                    /\ Len(h) = k + 1 + N
                    /\ \A i \in 1..N :
                          /\ h[k + 1 + i].type = "tool"
                          /\ h[k + 1 + i].tool_call_id = h[k + 1].tool_calls[i].id
                    /\ Last(modelCalls'[s]) = [tools |-> FALSE, history |-> h]
          /\ shown[s] = Exception("second_pass") =>
                /\ history'[s] = history[s]
                /\ pc'[s] = "load" => user_text'[s] \in UserTexts
          /\ (pc[s] = "load" /\ pc'[s] = "first_pass"
                 /\ history[s] # <<>> /\ Last(history[s]).type = "tool") =>
                history'[s] = Append(history[s], HumanMessage(user_text[s]))]_vars

\* a turn that follows a turn whose second pass failed has been answered
C17_Witness ==
    \E s \in Sessions :
        /\ RunOver(s)
        /\ shown[s].kind = "answer"
        /\ LastHuman(history[s]) > 2
        /\ history[s][LastHuman(history[s]) - 1].type = "tool"

\* the run has ended with an exception raised in the tool loop
ToolLoopRaised(s) ==
    shown[s] \in {Exception("tool_lookup"), Exception("tool_invoke")}

(***************************************************************************)
(* C18: the tools of a batch are invoked one at a time in request order,   *)
(* and the result of one is in the history before the next is looked up.   *)
(* When the lookup or the invocation of request k fails, the results of    *)
(* the requests 1..k-1 are in the history, there is none for request k,    *)
(* the requests after k were not invoked, and the run made no second model *)
(* call.                                                                   *)
(***************************************************************************)
C18_LoopStopsAtFirstFailure ==
    \A s \in Sessions :
        (modelCalls[s] # <<>> /\ HasBatch(s)) =>
            \A reqs \in {Plan(s).tool_calls} : \A results \in {TurnResults(s)} :
            LET ids == [i \in DOMAIN reqs |-> reqs[i].id]
                done == Len(results)
            IN  /\ IsPrefix(invoked[s], ids)
                /\ \A i \in 1..done : results[i].tool_call_id = ids[i]
                /\ pc[s] = "tool_loop" => (tcIdx[s] = done + 1 /\ Len(invoked[s]) = done)
                /\ Len(invoked[s]) > done =>
                      (Len(invoked[s]) = done + 1 /\ shown[s] = Exception("tool_invoke"))
                /\ ToolLoopRaised(s) =>
                      /\ RunOver(s)
                      /\ done < Len(reqs)
                      /\ Len(history[s]) = LastHuman(history[s]) + 1 + done
                      /\ ResultsFor(history[s], ids[done + 1]) = {}
                      /\ Len(invoked[s]) =
                            IF shown[s] = Exception("tool_invoke") THEN done + 1 ELSE done
                      /\ Len(modelCalls[s]) = 1

\* the second request of a batch failed after the first one was answered
C18_Witness ==
    \E s \in Sessions :
        /\ HasBatch(s)
        /\ ToolLoopRaised(s)
        /\ Len(TurnResults(s)) = 1
        /\ Len(Plan(s).tool_calls) = 2

TypeOK ==
    /\ cache \in {Uncached, <<ServedTools, 1>>}
    /\ \A s \in Sessions : pc[s] \in {"idle", "load", "first_pass", "tool_loop",
                                      "second_pass"}
====
